---- MODULE Spec2Model ----
(***************************************************************************)
(* A model of the leads API of src/app.py: the validation functions, the   *)
(* five HTTP handlers and the remote table `leads_table` they talk to.     *)
(*                                                                         *)
(* JSON values are pairs <<type, text>>: <<"str", chars>> is a string      *)
(* (a sequence of one-character strings), <<"num", digits>> a number.      *)
(* A request body (a dict) is a function from the keys it holds to values. *)
(***************************************************************************)
EXTENDS Integers, Sequences, FiniteSets, TLC

\* ------------------------------------------------------------------ bounds

\* The number of rows the store ever assigns an id to (ids are 1..MaxId).
MaxId == 2

\* ------------------------------------------------------------------ values

Str(chars) == <<"str", chars>>
Num(digits) == <<"num", digits>>

IsStr(v) == v[1] = "str"

\* Python truthiness of a JSON value: "" and 0 are falsy.
Truthy(v) == IF IsStr(v) THEN v[2] # <<>> ELSE v[2] # <<"0">>

Digits == {"0", "1", "2", "3", "4", "5", "6", "7", "8", "9"}
Whitespace == {" ", "\t", "\n", "\r"}

\* The phone strings requests carry.
P1 == Str(<<"9", "8", "7", "6", "5", "4", "3", "2", "1", "0">>)
P2 == Str(<<"+", "9", "1", " ", "9", "8", "7", "6", "5", "4", "3", "2", "1", "0">>)
PBad == Str(<<"1", "2", "3", "4", "5">>)
PNum == Num(<<"7">>)
EmptyStr == Str(<<>>)
FalsyZero == Num(<<"0">>)

\* The email strings requests carry.
E1 == Str(<<"a", "@", "x", ".", "i", "n">>)
E2 == Str(<<"b", "@", "x", ".", "i", "n">>)
EBad == Str(<<"a", "b">>)
ENum == Num(<<"7">>)

NameN == Str(<<"n">>)
PartyP == Str(<<"p">>)
StatusS == Str(<<"S">>)
TagG == Str(<<"G">>)
TimeT == Str(<<"T">>)

\* The values create_lead fills in.
Connected == Str(<<"C", "o", "n", "n", "e", "c", "t", "e", "d">>)
LeadTag == Str(<<"L", "e", "a", "d">>)
Now == Str(<<"n", "o", "w">>)

EmptyBody == [k \in {} |-> EmptyStr]

\* ------------------------------------------------------- validation functions

\* [6-9]\d{9}$ on the rest of the string; `$` also matches before one
\* trailing newline.
MatchesNumber(s) ==
    /\ Len(s) = 10 \/ (Len(s) = 11 /\ s[11] = "\n")
    /\ s[1] \in {"6", "7", "8", "9"}
    /\ \A i \in 2..10 : s[i] \in Digits

\* The lengths of the prefixes (\+91[\s\-]?|0)? can consume at the start of s.
PrefixLengths(s) ==
    {0}
    \cup (IF Len(s) >= 1 /\ s[1] = "0" THEN {1} ELSE {})
    \cup (IF Len(s) >= 3 /\ SubSeq(s, 1, 3) = <<"+", "9", "1">>
          THEN {3} \cup (IF Len(s) >= 4 /\ s[4] \in Whitespace \cup {"-"}
                         THEN {4} ELSE {})
          ELSE {})

\* re.match raises TypeError on a value that is not a string.
validate_phone_number(phone) ==
    IF ~IsStr(phone) THEN "TypeError"
    ELSE IF \E k \in PrefixLengths(phone[2]) :
                MatchesNumber(SubSeq(phone[2], k + 1, Len(phone[2])))
         THEN "True"
         ELSE "False"

\* The syntax the email checker accepts, as far as the strings here need it:
\* one "@", a non-empty local part, a domain with an inner dot.
EmailSyntaxOK(s) ==
    \E a \in 2..(Len(s) - 1) :
        /\ s[a] = "@"
        /\ \A i \in 1..Len(s) : s[i] = "@" => i = a
        /\ \E d \in (a + 2)..(Len(s) - 1) : s[d] = "."

\* validate_email returns for a valid address, raises EmailNotValidError for
\* an invalid string, and fails with another exception (AttributeError) on a
\* value that is neither str nor bytes.
validate_email(email) ==
    IF ~IsStr(email) THEN "AttributeError"
    ELSE IF EmailSyntaxOK(email[2]) THEN "ok"
    ELSE "EmailNotValidError"

RequiredFields == <<"name", "phone", "email", "party">>

Present(data, field) == field \in DOMAIN data /\ Truthy(data[field])

RECURSIVE RequiredErrorsFrom(_, _)
RequiredErrorsFrom(data, i) ==
    IF i > Len(RequiredFields) THEN <<>>
    ELSE (IF ~Present(data, RequiredFields[i])
          THEN <<RequiredFields[i] \o " is required">>
          ELSE <<>>)
         \o RequiredErrorsFrom(data, i + 1)

\* The loop over required_fields.
RequiredErrors(data) == RequiredErrorsFrom(data, 1)

InvalidPhone == "Invalid phone number format. Use +91 XXXXXXXXXX or 0XXXXXXXXXX"
PhoneExists == "Phone number already exists"
PhoneLookupError == "Error validating phone number"
InvalidEmail == "Invalid email format"
EmailExists == "Email already exists"
EmailLookupError == "Error validating email"

\* select("*").eq(field, value).limit(1): whether a row holds the value.
ExistsByField(st, field, value) ==
    \E i \in DOMAIN st : field \in DOMAIN st[i] /\ st[i][field] = value

Call(kind, ok) == <<kind, ok>>

StepResult(errs, calls, exc) == [errors |-> errs, calls |-> calls, exc |-> exc]

\* The phone block of validate_lead_data. `fails` holds the store calls that
\* raise in this request.
PhoneStep(data, check_existing, st, fails) ==
    IF ~Present(data, "phone") THEN StepResult(<<>>, <<>>, "none")
    ELSE LET fmt == validate_phone_number(data["phone"]) IN
         IF fmt = "TypeError" THEN StepResult(<<>>, <<>>, "TypeError")
         ELSE IF fmt = "False" THEN StepResult(<<InvalidPhone>>, <<>>, "none")
         ELSE IF ~check_existing THEN StepResult(<<>>, <<>>, "none")
         ELSE IF "select_phone" \in fails
              THEN StepResult(<<PhoneLookupError>>,
                              <<Call("select_phone", FALSE)>>, "none")
         ELSE IF ExistsByField(st, "phone", data["phone"])
              THEN StepResult(<<PhoneExists>>,
                              <<Call("select_phone", TRUE)>>, "none")
         ELSE StepResult(<<>>, <<Call("select_phone", TRUE)>>, "none")

\* The email block of validate_lead_data.
EmailStep(data, check_existing, st, fails) ==
    IF ~Present(data, "email") THEN StepResult(<<>>, <<>>, "none")
    ELSE LET fmt == validate_email(data["email"]) IN
         IF fmt = "AttributeError" THEN StepResult(<<>>, <<>>, "AttributeError")
         ELSE IF fmt = "EmailNotValidError"
              THEN StepResult(<<InvalidEmail>>, <<>>, "none")
         ELSE IF ~check_existing THEN StepResult(<<>>, <<>>, "none")
         ELSE IF "select_email" \in fails
              THEN StepResult(<<EmailLookupError>>,
                              <<Call("select_email", FALSE)>>, "none")
         ELSE IF ExistsByField(st, "email", data["email"])
              THEN StepResult(<<EmailExists>>,
                              <<Call("select_email", TRUE)>>, "none")
         ELSE StepResult(<<>>, <<Call("select_email", TRUE)>>, "none")

\* A validation that stops at the first block that finds an error: the email
\* block is skipped when the phone block reported one.
validate_lead_data_short(data, check_existing, st, fails) ==
    LET required == RequiredErrors(data)
        ph == PhoneStep(data, check_existing, st, fails)
        em == EmailStep(data, check_existing, st, fails)
    IN  IF ph.exc # "none" THEN StepResult(required, ph.calls, ph.exc)
        ELSE IF ph.errors # <<>> THEN StepResult(required \o ph.errors, ph.calls, "none")
        ELSE IF em.exc # "none"
             THEN StepResult(required \o ph.errors, ph.calls \o em.calls, em.exc)
        ELSE StepResult(required \o ph.errors \o em.errors, ph.calls \o em.calls, "none")

\* validate_lead_data: the errors it returns, the store calls it made, and
\* the exception it raised instead of returning ("none": it returned).
validate_lead_data(data, check_existing, st, fails) ==
    LET required == RequiredErrors(data)
        ph == PhoneStep(data, check_existing, st, fails)
        em == EmailStep(data, check_existing, st, fails)
    IN  IF ph.exc # "none" THEN StepResult(required, ph.calls, ph.exc)
        ELSE IF em.exc # "none"
             THEN StepResult(required \o ph.errors, ph.calls \o em.calls, em.exc)
        ELSE StepResult(required \o ph.errors \o em.errors, ph.calls \o em.calls, "none")

\* ------------------------------------------------------------------- state

VARIABLES
    store,       \* leads_table: id -> row (a row maps its columns to values)
    nextId,      \* the id the store assigns to the next inserted row
    req,         \* the request being served: [op, id, body] (op "none": idle)
    resp,        \* the response its handler returned
    calls,       \* the store calls that request made, in order: <<kind, ok>>
    data,        \* the handler's `data` dict when it returned
    raised,      \* the exception that left the handler ("none": none did)
    lastCreate,  \* history: the last accepted create, until the next write
    lastDeleted, \* history: the id the previous request deleted (0: none)
    pc,          \* concurrent creates: where each request is in create_lead
    cbody,       \* concurrent creates: each request's body
    cerrs,       \* concurrent creates: the errors each validation has so far
    cresp,       \* concurrent creates: each request's response
    clog,        \* concurrent creates: the store calls made, <<request, kind, ok>>
    vin,         \* validate_lead_data alone: its arguments
    vout         \* validate_lead_data alone: its result

serialVars == <<req, resp, calls, data, raised, lastCreate, lastDeleted>>
concVars == <<pc, cbody, cerrs, cresp, clog>>
valVars == <<vin, vout>>

Resp(status, key, payload) == [status |-> status, key |-> key, payload |-> payload]
NoResp == Resp(0, "none", <<>>)
NoReq == [op |-> "none", id |-> 0, body |-> EmptyBody]
NoCreate == [id |-> 0, body |-> EmptyBody]

\* Requests are served one at a time: a handler starts when none is running.
Idle == req = NoReq

EmptyStore == [i \in {} |-> EmptyBody]

\* ------------------------------------------------------------ request bodies

Absent == <<"absent", <<>>>>

RestValues ==
    [name |-> NameN, party |-> PartyP,
     status |-> StatusS, tag |-> TagG, lastconnected |-> TimeT]

\* The keys other than phone and email a body holds.
RestKeySets ==
    { {"name", "party"},
      {"name", "party", "status", "tag", "lastconnected"},
      {"name", "party", "tag"},
      {"party"}, {"name"}, {"status"}, {} }

Rests ==
    { [k \in ks |-> RestValues[k]] : ks \in RestKeySets }
    \cup { [name |-> EmptyStr, party |-> PartyP] }

\* The phone and email a body holds (Absent: the key is missing).
PhoneEmailPairs ==
    ({P1, P2} \X {E1, E2})
    \cup { <<PBad, E1>>, <<P1, EBad>>, <<PBad, EBad>>,
           <<PNum, E1>>, <<P1, ENum>>,
           <<Absent, E1>>, <<P1, Absent>>, <<Absent, Absent>> }

MakeBody(rest, phone, email) ==
    [k \in DOMAIN rest
           \cup (IF phone = Absent THEN {} ELSE {"phone"})
           \cup (IF email = Absent THEN {} ELSE {"email"}) |->
        IF k = "phone" THEN phone ELSE IF k = "email" THEN email ELSE rest[k]]

Bodies == { MakeBody(r, pe[1], pe[2]) : r \in Rests, pe \in PhoneEmailPairs }

Ids == 1..MaxId

\* ------------------------------------------------------------------- store

\* insert(data): the store assigns the id and keeps the row as given.
InsertRow(st, id, row) ==
    [i \in DOMAIN st \cup {id} |-> IF i = id THEN row ELSE st[i]]

\* update(data).eq('id', id): the columns of data replace the row's.
UpdateRow(st, id, patch) ==
    [st EXCEPT ![id] = [k \in DOMAIN st[id] \cup DOMAIN patch |->
                           IF k \in DOMAIN patch THEN patch[k] ELSE st[id][k]]]

\* A delete that reports the row and leaves it in the table.
DeleteRowKeeps(st, id) == st

\* delete().eq('id', id)
DeleteRow(st, id) == [i \in DOMAIN st \ {id} |-> st[i]]

\* A select that lost its filter on id: the first row of the table.
LeadFirst(st, id) ==
    LET first == CHOOSE i \in DOMAIN st : \A j \in DOMAIN st : i <= j
    IN  [id |-> first, fields |-> st[first]]

\* A row as the store returns it: its columns and its id.
Lead(st, id) == [id |-> id, fields |-> st[id]]

StoreError == "StoreError"

\* ---------------------------------------------------------------- handlers

\* Defaults that overwrite a status the caller supplied.
ApplyDefaultsOverride(d) ==
    [k \in DOMAIN d \cup {"lastconnected", "status", "tag"} |->
        IF k = "status" THEN Connected
        ELSE IF k \in DOMAIN d THEN d[k]
        ELSE IF k = "lastconnected" THEN Now
        ELSE LeadTag]

\* The defaults create_lead fills in.
ApplyDefaults(d) ==
    [k \in DOMAIN d \cup {"lastconnected", "status", "tag"} |->
        IF k \in DOMAIN d THEN d[k]
        ELSE IF k = "lastconnected" THEN Now
        ELSE IF k = "status" THEN Connected
        ELSE LeadTag]

\* What a handler leaves behind: its response, the store calls it made, its
\* `data` and the exception that escaped it.
Outcome(r, cs, d, exc) ==
    /\ resp' = r
    /\ calls' = cs
    /\ data' = d
    /\ raised' = exc

\* The validation create_lead runs, outside any try block.
CreateValidation(body, st, fails) == validate_lead_data(body, TRUE, st, fails)

\* POST /api/leads
create_lead(body, fails) ==
    /\ Idle
    /\ UNCHANGED <<concVars, valVars>>
    /\ nextId <= MaxId
    /\ req' = [op |-> "create", id |-> 0, body |-> body]
    /\ lastDeleted' = 0
    /\ IF body = EmptyBody
       THEN /\ Outcome(Resp(400, "message", "No data provided"), <<>>, body, "none")
            /\ UNCHANGED <<store, nextId, lastCreate>>
       ELSE LET v == CreateValidation(body, store, fails) IN
            IF v.exc # "none"
            THEN /\ Outcome(NoResp, v.calls, body, v.exc)
                 /\ UNCHANGED <<store, nextId, lastCreate>>
            ELSE IF v.errors # <<>>
            THEN /\ Outcome(Resp(400, "errors", v.errors), v.calls, body, "none")
                 /\ UNCHANGED <<store, nextId, lastCreate>>
            ELSE IF "insert" \in fails
            THEN /\ Outcome(Resp(500, "message", "Error creating lead: " \o StoreError),
                            v.calls \o <<Call("insert", FALSE)>>,
                            ApplyDefaults(body), "none")
                 /\ UNCHANGED <<store, nextId, lastCreate>>
            ELSE /\ store' = InsertRow(store, nextId, ApplyDefaults(body))
                 /\ nextId' = nextId + 1
                 /\ Outcome(Resp(201, "lead", Lead(store', nextId)),
                            v.calls \o <<Call("insert", TRUE)>>,
                            ApplyDefaults(body), "none")
                 /\ lastCreate' = [id |-> nextId, body |-> body]

\* check_existing set only when both the email and the phone differ.
CheckExistingBoth(body, row) ==
    /\ "email" \in DOMAIN body /\ body["email"] # row["email"]
    /\ "phone" \in DOMAIN body /\ body["phone"] # row["phone"]

\* check_existing as update_lead computes it from the body and the stored row.
CheckExisting(body, row) ==
    \/ "email" \in DOMAIN body /\ body["email"] # row["email"]
    \/ "phone" \in DOMAIN body /\ body["phone"] # row["phone"]

\* A validation of the row as it would be after the update, not of the body.
UpdateValidationMerged(body, row, st, fails) ==
    validate_lead_data([k \in DOMAIN row \cup DOMAIN body |->
                           IF k \in DOMAIN body THEN body[k] ELSE row[k]],
                       CheckExisting(body, row), st, fails)

\* The validation update_lead runs, inside its try block, on the request body.
UpdateValidation(body, row, st, fails) ==
    validate_lead_data(body, CheckExisting(body, row), st, fails)

\* PUT /api/leads/<id>
update_lead(id, body, fails) ==
    /\ Idle
    /\ UNCHANGED <<concVars, valVars>>
    /\ req' = [op |-> "update", id |-> id, body |-> body]
    /\ lastDeleted' = 0
    /\ UNCHANGED nextId
    /\ IF body = EmptyBody
       THEN /\ Outcome(Resp(400, "message", "No data provided"), <<>>, body, "none")
            /\ UNCHANGED <<store, lastCreate>>
       ELSE IF "select_id" \in fails
       THEN /\ Outcome(Resp(500, "message", "Error updating lead: " \o StoreError),
                       <<Call("select_id", FALSE)>>, body, "none")
            /\ UNCHANGED <<store, lastCreate>>
       ELSE IF id \notin DOMAIN store
       THEN /\ Outcome(Resp(404, "message", "Lead not found"),
                       <<Call("select_id", TRUE)>>, body, "none")
            /\ UNCHANGED <<store, lastCreate>>
       ELSE LET v == UpdateValidation(body, store[id], store, fails)
                cs == <<Call("select_id", TRUE)>> \o v.calls
            IN
            IF v.exc # "none"
            THEN /\ Outcome(Resp(500, "message", "Error updating lead: " \o v.exc),
                            cs, body, "none")
                 /\ UNCHANGED <<store, lastCreate>>
            ELSE IF v.errors # <<>>
            THEN /\ Outcome(Resp(400, "errors", v.errors), cs, body, "none")
                 /\ UNCHANGED <<store, lastCreate>>
            ELSE IF "update" \in fails
            THEN /\ Outcome(Resp(500, "message", "Error updating lead: " \o StoreError),
                            cs \o <<Call("update", FALSE)>>, body, "none")
                 /\ UNCHANGED <<store, lastCreate>>
            ELSE /\ store' = UpdateRow(store, id, body)
                 /\ Outcome(Resp(200, "lead", Lead(store', id)),
                            cs \o <<Call("update", TRUE)>>, body, "none")
                 /\ lastCreate' = NoCreate

\* DELETE /api/leads/<id>
delete_lead(id, fails) ==
    /\ Idle
    /\ UNCHANGED <<concVars, valVars>>
    /\ req' = [op |-> "delete", id |-> id, body |-> EmptyBody]
    /\ UNCHANGED <<nextId, lastDeleted>>
    /\ IF "delete" \in fails
       THEN /\ Outcome(Resp(500, "message", "Error deleting lead: " \o StoreError),
                       <<Call("delete", FALSE)>>, EmptyBody, "none")
            /\ UNCHANGED <<store, lastCreate>>
       ELSE IF id \in DOMAIN store
       THEN /\ store' = DeleteRow(store, id)
            /\ Outcome(Resp(200, "message", <<"Lead", id, "deleted successfully">>),
                       <<Call("delete", TRUE)>>, EmptyBody, "none")
            /\ lastCreate' = NoCreate
       ELSE /\ Outcome(Resp(404, "message", "Lead not found"),
                       <<Call("delete", TRUE)>>, EmptyBody, "none")
            /\ UNCHANGED <<store, lastCreate>>

\* GET /api/leads/<id>
get_lead(id, fails) ==
    /\ Idle
    /\ UNCHANGED <<concVars, valVars>>
    /\ req' = [op |-> "get", id |-> id, body |-> EmptyBody]
    /\ lastDeleted' = 0
    /\ UNCHANGED <<store, nextId, lastCreate>>
    /\ IF "select_id" \in fails
       THEN Outcome(Resp(500, "message", "Error fetching lead: " \o StoreError),
                    <<Call("select_id", FALSE)>>, EmptyBody, "none")
       ELSE IF id \in DOMAIN store
       THEN Outcome(Resp(200, "lead", Lead(store, id)),
                    <<Call("select_id", TRUE)>>, EmptyBody, "none")
       ELSE Outcome(Resp(404, "message", "Lead not found"),
                    <<Call("select_id", TRUE)>>, EmptyBody, "none")

\* GET /api/leads
get_all_leads(fails) ==
    /\ Idle
    /\ UNCHANGED <<concVars, valVars>>
    /\ req' = [op |-> "list", id |-> 0, body |-> EmptyBody]
    /\ lastDeleted' = 0
    /\ UNCHANGED <<store, nextId, lastCreate>>
    /\ IF "select_all" \in fails
       THEN Outcome(Resp(500, "message", "Error fetching leads: " \o StoreError),
                    <<Call("select_all", FALSE)>>, EmptyBody, "none")
       ELSE Outcome(Resp(200, "leads", store),
                    <<Call("select_all", TRUE)>>, EmptyBody, "none")

\* The request is over: the response has been sent and the handler's locals
\* are gone. The next request starts from here.
Return ==
    /\ req # NoReq
    /\ UNCHANGED <<concVars, valVars>>
    /\ req' = NoReq
    /\ Outcome(NoResp, <<>>, EmptyBody, "none")
    /\ lastDeleted' = IF req.op = "delete" /\ resp.status = 200 THEN req.id ELSE 0
    /\ UNCHANGED <<store, nextId, lastCreate>>

\* The store calls of one request that fail.
CreateFails ==
    { {}, {"select_phone"}, {"select_email"}, {"select_phone", "select_email"},
      {"insert"} }
UpdateFails ==
    { {}, {"select_id"}, {"select_phone"}, {"select_email"},
      {"select_phone", "select_email"}, {"update"} }

Requests == {1, 2}

NoVal == [data |-> EmptyBody, check_existing |-> FALSE, st |-> EmptyStore, fails |-> {}]
NoOut == StepResult(<<>>, <<>>, "unset")

SerialInit ==
    /\ req = NoReq
    /\ resp = NoResp
    /\ calls = <<>>
    /\ data = EmptyBody
    /\ raised = "none"
    /\ lastCreate = NoCreate
    /\ lastDeleted = 0

ConcIdle ==
    /\ pc = [p \in Requests |-> "off"]
    /\ cbody = [p \in Requests |-> EmptyBody]
    /\ cerrs = [p \in Requests |-> <<>>]
    /\ cresp = [p \in Requests |-> NoResp]
    /\ clog = <<>>

ValIdle == vin = NoVal /\ vout = NoOut

Init ==
    /\ store = EmptyStore
    /\ nextId = 1
    /\ SerialInit
    /\ ConcIdle
    /\ ValIdle

vars == <<store, nextId, serialVars, concVars, valVars>>

Next ==
    \/ Idle /\ \E body \in Bodies, fails \in CreateFails : create_lead(body, fails)
    \/ Idle /\ \E id \in Ids, body \in Bodies, fails \in UpdateFails :
                  update_lead(id, body, fails)
    \/ Idle /\ \E id \in Ids, fails \in {{}, {"delete"}} : delete_lead(id, fails)
    \/ Idle /\ \E id \in Ids, fails \in {{}, {"select_id"}} : get_lead(id, fails)
    \/ Idle /\ \E fails \in {{}, {"select_all"}} : get_all_leads(fails)
    \/ Return

\* Requests served one after the other, each to completion.
Spec == Init /\ [][Next]_vars

\* ------------------------------------------------- validate_lead_data alone

P0 == Str(<<"0", "9", "8", "7", "6", "5", "4", "3", "2", "1", "0">>)

MakeBody4(name, party, phone, email) ==
    MakeBody([k \in (IF name = Absent THEN {} ELSE {"name"})
                    \cup (IF party = Absent THEN {} ELSE {"party"}) |->
                 IF k = "name" THEN name ELSE party],
             phone, email)

ValBodies ==
    { MakeBody4(n, pa, ph, em) :
        n \in {Absent, EmptyStr, FalsyZero, NameN},
        pa \in {Absent, EmptyStr, PartyP},
        ph \in {Absent, EmptyStr, P0, P1, P2, PBad, PNum},
        em \in {Absent, EmptyStr, E1, E2, EBad, ENum} }

StoredRow(phone, email) == ApplyDefaults(MakeBody4(NameN, PartyP, phone, email))

\* The tables validation is run against.
ValStores ==
    { EmptyStore,
      InsertRow(EmptyStore, 1, StoredRow(P1, E1)),
      InsertRow(EmptyStore, 1, StoredRow(P1, E2)),
      InsertRow(InsertRow(EmptyStore, 1, StoredRow(P1, E1)), 2, StoredRow(P2, E2)) }

ValInit ==
    /\ store = EmptyStore
    /\ nextId = 1
    /\ SerialInit
    /\ ConcIdle
    /\ vin \in [data : ValBodies, check_existing : BOOLEAN, st : ValStores,
                fails : SUBSET {"select_phone", "select_email"}]
    /\ vout = NoOut

\* One call of validate_lead_data.
Validate ==
    /\ vout = NoOut
    /\ vout' = validate_lead_data(vin.data, vin.check_existing, vin.st, vin.fails)
    /\ UNCHANGED <<store, nextId, serialVars, concVars, vin>>

ValNext == Validate

SpecValidate == ValInit /\ [][ValNext]_vars

\* -------------------------------------------------------- concurrent creates

\* The bodies two concurrent create requests carry.
ConcBodies ==
    { MakeBody4(NameN, PartyP, pe[1], pe[2]) :
        pe \in ({P1, P2} \X {E1, E2}) \cup {<<PBad, E1>>} }

ConcInit ==
    /\ store = EmptyStore
    /\ nextId = 1
    /\ SerialInit
    /\ ValIdle
    /\ pc = [p \in Requests |-> "validate_phone"]
    /\ cbody \in [Requests -> ConcBodies]
    /\ cerrs = [p \in Requests |-> <<>>]
    /\ cresp = [p \in Requests |-> NoResp]
    /\ clog = <<>>

Logged(p, cs) == [i \in 1..Len(cs) |-> <<p, cs[i][1], cs[i][2]>>]

\* create_lead up to the end of the phone block of its validation: the
\* required-field loop, the format check and the phone lookup. (The bodies
\* of ConcBodies hold strings only, so no format check raises.)
CreatePhone(p, fails) ==
    /\ pc[p] = "validate_phone"
    /\ LET ph == PhoneStep(cbody[p], TRUE, store, fails) IN
       /\ cerrs' = [cerrs EXCEPT ![p] = RequiredErrors(cbody[p]) \o ph.errors]
       /\ clog' = clog \o Logged(p, ph.calls)
       /\ pc' = [pc EXCEPT ![p] = "validate_email"]
    /\ UNCHANGED <<store, nextId, cbody, cresp, serialVars, valVars>>

\* The email block, and the `if errors` that ends a rejected request.
CreateEmail(p, fails) ==
    /\ pc[p] = "validate_email"
    /\ LET em == EmailStep(cbody[p], TRUE, store, fails)
           errors == cerrs[p] \o em.errors
       IN
       /\ cerrs' = [cerrs EXCEPT ![p] = errors]
       /\ clog' = clog \o Logged(p, em.calls)
       /\ IF errors # <<>>
          THEN /\ cresp' = [cresp EXCEPT ![p] = Resp(400, "errors", errors)]
               /\ pc' = [pc EXCEPT ![p] = "done"]
          ELSE /\ pc' = [pc EXCEPT ![p] = "insert"]
               /\ UNCHANGED cresp
    /\ UNCHANGED <<store, nextId, cbody, serialVars, valVars>>

\* An insert that checks the phone again, atomically with the write, and
\* refuses a row whose phone the table already holds.
CreateInsertChecked(p, fails) ==
    /\ pc[p] = "insert"
    /\ pc' = [pc EXCEPT ![p] = "done"]
    /\ IF "insert" \in fails \/ ExistsByField(store, "phone", cbody[p]["phone"])
       THEN /\ clog' = Append(clog, <<p, "insert", "insert" \notin fails>>)
            /\ cresp' = [cresp EXCEPT ![p] =
                           Resp(500, "message", "Error creating lead: " \o StoreError)]
            /\ UNCHANGED <<store, nextId>>
       ELSE /\ clog' = Append(clog, <<p, "insert", TRUE>>)
            /\ store' = InsertRow(store, nextId, ApplyDefaults(cbody[p]))
            /\ nextId' = nextId + 1
            /\ cresp' = [cresp EXCEPT ![p] = Resp(201, "lead", Lead(store', nextId))]
    /\ UNCHANGED <<cbody, cerrs, serialVars, valVars>>

\* The defaults and the insert.
CreateInsert(p, fails) ==
    /\ pc[p] = "insert"
    /\ pc' = [pc EXCEPT ![p] = "done"]
    /\ IF "insert" \in fails
       THEN /\ clog' = Append(clog, <<p, "insert", FALSE>>)
            /\ cresp' = [cresp EXCEPT ![p] =
                           Resp(500, "message", "Error creating lead: " \o StoreError)]
            /\ UNCHANGED <<store, nextId>>
       ELSE /\ clog' = Append(clog, <<p, "insert", TRUE>>)
            /\ store' = InsertRow(store, nextId, ApplyDefaults(cbody[p]))
            /\ nextId' = nextId + 1
            /\ cresp' = [cresp EXCEPT ![p] = Resp(201, "lead", Lead(store', nextId))]
    /\ UNCHANGED <<cbody, cerrs, serialVars, valVars>>

ConcNext ==
    \/ \E p \in Requests, fails \in {{}, {"select_phone"}} : CreatePhone(p, fails)
    \/ \E p \in Requests, fails \in {{}, {"select_email"}} : CreateEmail(p, fails)
    \/ \E p \in Requests, fails \in {{}, {"insert"}} : CreateInsert(p, fails)

\* Two create requests whose store calls interleave.
SpecConc == ConcInit /\ [][ConcNext]_vars

\* ------------------------------------------------------------------- claims

Errors == IF resp.key = "errors" THEN {resp.payload[i] : i \in DOMAIN resp.payload}
          ELSE {}

Issued(kind) == \E i \in DOMAIN calls : calls[i][1] = kind
Failed(kind) == \E i \in DOMAIN calls : calls[i] = Call(kind, FALSE)

HeldByOther(field, value, id) ==
    \E i \in DOMAIN store : i # id /\ store[i][field] = value

\* C1: with requests served one at a time, no two leads of the store ever
\* hold the same phone string, and no two the same email string.
C1_SerialUniqueness ==
    \A i, j \in DOMAIN store :
        i # j => /\ store[i]["phone"] # store[j]["phone"]
                 /\ store[i]["email"] # store[j]["email"]

\* A request that tried to give a lead the phone another lead holds, and was
\* refused.
C1_Witness ==
    /\ req.op = "update"
    /\ req.id \in DOMAIN store
    /\ "phone" \in DOMAIN req.body
    /\ HeldByOther("phone", req.body["phone"], req.id)
    /\ PhoneExists \in Errors

\* C2: an update whose body carries the lead's own stored phone (or email),
\* which no other lead holds, is never told that the phone (or email)
\* already exists, whether or not the other field changes in the same body.
\* (A refused update leaves the store as it was, so the row read here is the
\* one the request saw.)
C2_NoFalseDuplicate ==
    (req.op = "update" /\ req.id \in DOMAIN store) =>
        /\ ( /\ "phone" \in DOMAIN req.body
             /\ req.body["phone"] = store[req.id]["phone"]
             /\ ~HeldByOther("phone", req.body["phone"], req.id) )
           => PhoneExists \notin Errors
        /\ ( /\ "email" \in DOMAIN req.body
             /\ req.body["email"] = store[req.id]["email"]
             /\ ~HeldByOther("email", req.body["email"], req.id) )
           => EmailExists \notin Errors

\* C4: when a uniqueness lookup of a create or an update fails, the handler
\* answers 400 with the lookup's error message in `errors`, and issues no
\* insert or update.
C4_LookupFailureDegrades ==
    (req.op \in {"create", "update"}) =>
        /\ Failed("select_phone") =>
              /\ resp.status = 400
              /\ PhoneLookupError \in Errors
              /\ ~Issued("insert") /\ ~Issued("update")
        /\ Failed("select_email") =>
              /\ resp.status = 400
              /\ EmailLookupError \in Errors
              /\ ~Issued("insert") /\ ~Issued("update")

\* C5: every request with a non-empty body ends with a response its handler
\* produced, and no exception leaves the handler.
C5_NoEscape ==
    (req.op # "none" /\ req.body # EmptyBody) =>
        /\ raised = "none"
        /\ resp.status \in {200, 201, 400, 404, 500}

\* C6: a delete answers 200 "Lead {id} deleted successfully" exactly when the
\* row was in the store and the request removed it, and 404 "Lead not found"
\* when the store holds no such row; the delete that follows a successful
\* delete of the same id answers 404.
C6_Delete ==
    [][ req'.op = "delete" =>
          LET id == req'.id
              answered == calls' = <<Call("delete", TRUE)>>
          IN  /\ resp'.status = 200 <=> (id \in DOMAIN store /\ id \notin DOMAIN store')
              /\ resp'.status = 200 =>
                    /\ resp'.payload = <<"Lead", id, "deleted successfully">>
                    /\ \A i \in DOMAIN store \ {id} :
                          i \in DOMAIN store' /\ store'[i] = store[i]
              /\ (answered /\ id \notin DOMAIN store) =>
                    /\ resp'.status = 404
                    /\ resp'.payload = "Lead not found"
              /\ (answered /\ lastDeleted = id) => resp'.status = 404
              /\ resp'.status # 200 => store' = store
      ]_vars

\* The second of two deletes of the same id in a row, answered 404.
C6_Witness ==
    /\ req.op = "delete"
    /\ lastDeleted = req.id
    /\ resp.status = 404

CreateDefault(k) ==
    IF k = "status" THEN Connected ELSE IF k = "tag" THEN LeadTag ELSE Now

\* The body a create was given, with the value create fills in for each of
\* status, tag and lastconnected it does not hold.
WithDefaults(b) ==
    [k \in DOMAIN b \cup {"status", "tag", "lastconnected"} |->
        IF k \in DOMAIN b THEN b[k] ELSE CreateDefault(k)]

FetchOfLastCreate ==
    /\ req.op = "get"
    /\ lastCreate.id # 0
    /\ req.id = lastCreate.id
    /\ calls = <<Call("select_id", TRUE)>>

\* C7 as stated: fetching the lead a create returned, with no write in
\* between, gives 200 and exactly the submitted fields plus the id.
C7_RoundTripAsStated ==
    FetchOfLastCreate =>
        /\ resp.status = 200
        /\ resp.payload = [id |-> lastCreate.id, fields |-> lastCreate.body]

\* C7, amended: fetching the lead a create returned, with no write in
\* between and the fetch itself answered by the store, gives 200 and the
\* submitted fields, the id, and the defaults create filled in for the keys
\* among status, tag and lastconnected the body did not hold.
C7_RoundTrip ==
    FetchOfLastCreate =>
        /\ resp.status = 200
        /\ resp.key = "lead"
        /\ resp.payload = [id |-> lastCreate.id, fields |-> WithDefaults(lastCreate.body)]

\* A fetch of the second lead created, whose body held no status.
C7_Witness ==
    /\ FetchOfLastCreate
    /\ resp.status = 200
    /\ lastCreate.id = 2
    /\ "status" \notin DOMAIN lastCreate.body
    /\ "tag" \in DOMAIN lastCreate.body

\* C8: the row a create inserts holds every value of the body as supplied
\* (status, tag and lastconnected included), "Connected", "Lead" and the
\* server's time for those of the three keys the body lacks, and nothing
\* else; a create that is refused has filled in no default.
C8_CreateDefaults ==
    (req.op = "create") =>
        /\ resp.status = 201 =>
              LET row == store[resp.payload.id]
                  b == req.body
              IN  /\ DOMAIN row = DOMAIN b \cup {"status", "tag", "lastconnected"}
                  /\ \A k \in DOMAIN b : row[k] = b[k]
                  /\ "status" \notin DOMAIN b => row["status"] = Connected
                  /\ "tag" \notin DOMAIN b => row["tag"] = LeadTag
                  /\ "lastconnected" \notin DOMAIN b => row["lastconnected"] = Now
                  /\ resp.payload.fields = row
        /\ (resp.status = 400 \/ raised # "none") =>
              /\ data = req.body
              /\ ~Issued("insert")

\* A create that supplied its own tag and left status and lastconnected out.
C8_Witness ==
    /\ req.op = "create"
    /\ resp.status = 201
    /\ "tag" \in DOMAIN req.body
    /\ "status" \notin DOMAIN req.body
    /\ store[resp.payload.id]["tag"] = TagG
    /\ store[resp.payload.id]["status"] = Connected

MissingRequired(b) ==
    {f \in {"name", "phone", "email", "party"} :
        f \notin DOMAIN b \/ b[f] \in {EmptyStr, FalsyZero}}

UpdateOfExisting ==
    /\ req.op = "update"
    /\ req.id \in DOMAIN store
    /\ ~Failed("select_id")

Finished == \A p \in Requests : pc[p] = "done"

\* Every uniqueness lookup of both requests was answered before either insert.
LookupsBeforeInserts ==
    /\ \A p \in Requests :
          /\ \E i \in DOMAIN clog : clog[i] = <<p, "select_phone", TRUE>>
          /\ \E i \in DOMAIN clog : clog[i] = <<p, "select_email", TRUE>>
    /\ \A i, j \in DOMAIN clog :
          (clog[i][2] = "insert" /\ clog[j][2] # "insert") => j < i
    /\ \A i \in DOMAIN clog : clog[i][3]

SamePhoneDistinctEmails ==
    /\ cbody[1]["phone"] = cbody[2]["phone"]
    /\ cbody[1]["email"] # cbody[2]["email"]

\* C3: when two creates for the same phone (and different emails) both have
\* their uniqueness lookups answered before either inserts, and no store call
\* fails, both are answered 201 and the store ends with two rows holding that
\* phone: nothing between the lookup and the insert re-checks it.
C3_RaceLeavesDuplicates ==
    (Finished /\ SamePhoneDistinctEmails /\ LookupsBeforeInserts) =>
        /\ \A p \in Requests : cresp[p].status = 201
        /\ cresp[1].payload.id # cresp[2].payload.id
        /\ \A p \in Requests :
              /\ cresp[p].payload.id \in DOMAIN store
              /\ store[cresp[p].payload.id]["phone"] = cbody[p]["phone"]

\* The race itself: both lookups before either insert, both requests
\* answered 201, two rows with one phone.
C3_Witness ==
    /\ Finished /\ SamePhoneDistinctEmails /\ LookupsBeforeInserts
    /\ \A p \in Requests : cresp[p].status = 201
    /\ \E i, j \in DOMAIN store : i # j /\ store[i]["phone"] = store[j]["phone"]

\* ---------------------------------------------- claims on validate_lead_data

Returned == vout # NoOut /\ vout.exc = "none"

NonEmpty(field) == field \notin MissingRequired(vin.data)

LookupIssued(kind) == \E i \in DOMAIN vout.calls : vout.calls[i][1] = kind

RequiredMessages ==
    <<<<"name", "name is required">>, <<"phone", "phone is required">>,
      <<"email", "email is required">>, <<"party", "party is required">>>>

IsMissing(pair) == ~NonEmpty(pair[1])

\* The required-field messages owed, in the order name, phone, email, party.
OwedRequired ==
    LET owed == SelectSeq(RequiredMessages, IsMissing)
    IN  [i \in 1..Len(owed) |-> owed[i][2]]

PhoneMessages == {InvalidPhone, PhoneExists, PhoneLookupError}
EmailMessages == {InvalidEmail, EmailExists, EmailLookupError}

====
